---- MODULE Spec2Model ----
(***************************************************************************)
(* State-machine model of three fragments of the imodeljs front end:       *)
(*   - IModelSession (create / getConnection / open),                      *)
(*   - the MessageCenterField status-bar component,                        *)
(*   - the CustomNumberEditor inside an EditorContainer, as exercised by   *)
(*     its unit test.                                                      *)
(* Each fragment has its own specification; the variables of the other     *)
(* fragments stay at their initial values.                                 *)
(***************************************************************************)
EXTENDS Integers, Sequences, FiniteSets, TLC

VARIABLES
    \* ---- IModelSession.create (one invocation of the static async function)
    createPc,       \* "idle" | "awaitProject" | "awaitIModels" | "done" | "failed"
    iModelData,     \* the IModelData argument of the running / last create
    contextId,      \* create's local variable contextId
    lookups,        \* the remote lookups create has issued, in order, with their results
    session,        \* the IModelSession create returned (NoSession when none)
    createError,    \* the message of the error create rejected with ("" when none)
    \* ---- one IModelSession object: getConnection / open
    iModel,         \* the private field _iModel
    calls,          \* the getConnection()/open() invocations made on the session
    remoteOpens,    \* the RemoteBriefcaseConnection.open requests, in order
    \* ---- MessageManager and one MessageCenterField instance
    messages,       \* MessageManager.messages
    listeners,      \* the listeners registered on MessageManager.onMessageAddedEvent
    phase,          \* "absent" | "constructed" | "mounted" | "unmounted"
    activeTab,      \* state.activeTab
    target,         \* state.target
    messageCount,   \* state.messageCount
    openWidget,     \* props.openWidget, held by the parent status bar
    onOpenWidget,   \* whether props.onOpenWidget is given
    rows,           \* what getMessages() returned in the last render()
    clicks,         \* indicator clicks since the panel was last closed otherwise
    lastEvent,      \* the last pointer event handled and what it requested
    \* ---- one CustomNumberEditor inside an EditorContainer
    propertyRecord, \* props.propertyRecord
    inputValue,     \* the text shown in the input
    commits,        \* how often onCommit has been invoked
    lastCommit,     \* the newValue of the last onCommit
    lastKey         \* the last editor event and the state it was handled in

sessionVars == <<createPc, iModelData, contextId, lookups, session, createError>>
connVars == <<iModel, calls, remoteOpens>>
fieldVars == <<messages, listeners, phase, activeTab, target, messageCount,
               openWidget, onOpenWidget, rows, clicks, lastEvent>>
editorVars == <<propertyRecord, inputValue, commits, lastCommit, lastKey>>
notCreateVars == <<connVars, fieldVars, editorVars>>
notConnVars == <<sessionVars, fieldVars, editorVars>>
notFieldVars == <<sessionVars, connVars, editorVars>>
notEditorVars == <<sessionVars, connVars, fieldVars>>

\* ------------------------------------------------------------------ bounds
MaxIModels == 2     \* longest list a by-name iModel query returns
MaxCalls == 3       \* getConnection()/open() invocations on one session

\* ------------------------------------------------------------- value sets
ProjectNames == {"ProjA"}
ContextIds == {"ctx1", "ctx2"}
IModelNames == {"modelX"}
IModelIds == {"im1", "im2"}
RemoteErrors == {"ECONNRESET"}

NoId == "<undefined>"
NoSession == [contextId |-> NoId, iModelId |-> NoId]

IModelDataSet ==
    [useProjectName : BOOLEAN, projectName : ProjectNames, projectId : ContextIds,
     useName : BOOLEAN, name : IModelNames, id : IModelIds]

NoData ==
    [useProjectName |-> FALSE, projectName |-> "ProjA", projectId |-> "ctx1",
     useName |-> FALSE, name |-> "modelX", id |-> "im1"]

\* Lists of at most n iModel ids (the HubIModel[] a query returns, by wsgId).
RECURSIVE ListsUpTo(_)
ListsUpTo(n) ==
    IF n = 0 THEN {<<>>}
    ELSE LET shorter == ListsUpTo(n - 1)
         IN  shorter \cup {Append(l, x) : l \in {s \in shorter : Len(s) = n - 1}, x \in IModelIds}

Pending == [kind |-> "pending", wsgId |-> NoId, list |-> <<>>, message |-> ""]

\* What ContextRegistryClient.getProject settles with: a Project, or a rejection
\* (no project matches the filter, or the request itself fails).
ProjectNotFoundMsg == "Could not find a project with the specified criteria."
GetProjectResults ==
    {[kind |-> "project", wsgId |-> c, list |-> <<>>, message |-> ""] : c \in ContextIds}
    \cup {[kind |-> "rejected", wsgId |-> NoId, list |-> <<>>, message |-> m] :
            m \in {ProjectNotFoundMsg} \cup RemoteErrors}

\* What IModelHubClient.iModels.get settles with: undefined, a (possibly empty)
\* list, or a rejection.
IModelsGetResults ==
    {[kind |-> "undefined", wsgId |-> NoId, list |-> <<>>, message |-> ""]}
    \cup {[kind |-> "list", wsgId |-> NoId, list |-> l, message |-> ""] : l \in ListsUpTo(MaxIModels)}
    \cup {[kind |-> "rejected", wsgId |-> NoId, list |-> <<>>, message |-> m] : m \in RemoteErrors}

\* ================================================== IModelSession.create

\* new IModelSession(contextId, imodelId)
NewIModelSession(ctx, imodelId) == [contextId |-> ctx, iModelId |-> imodelId]

IModelsMissingOnlyUndefined(imodels) == imodels.kind = "undefined"

\* undefined === imodels || imodels.length === 0
IModelsMissing(imodels) == imodels.kind = "undefined" \/ Len(imodels.list) = 0

\* `The iModel ${iModelData.name} does not exist in project ${contextId}.`
NotExistMessage(name, ctx) ==
    "The iModel " \o name \o " does not exist in project " \o ctx \o "."

\* What reading .wsgId of undefined throws.
WsgIdTypeError == "Cannot read property 'wsgId' of undefined"

\* imodelId = imodels[0].wsgId
FirstIModelId(imodels) == imodels.list[1]

QueryContextGivenProjectId(ctx, d) == d.projectId

\* The context id the by-name iModel query is issued in.
QueryContext(ctx, d) == ctx

\* The second half of create, run once contextId is known: either issue the
\* by-name iModel query and wait, or take the given id and return the session.
ResolveIModel(ctx, d, log) ==
    IF d.useName
    THEN /\ lookups' = Append(log, [svc |-> "iModels.get", contextId |-> QueryContext(ctx, d),
                                    name |-> d.name, result |-> Pending])
         /\ createPc' = "awaitIModels"
         /\ session' = NoSession
    ELSE /\ lookups' = log
         /\ createPc' = "done"
         /\ session' = NewIModelSession(ctx, d.id)

\* create is called: runs to its first await, or to its return.
CreateBegin(d) ==
    /\ createPc \in {"idle", "done", "failed"}
    /\ iModelData' = d
    /\ createError' = ""
    /\ IF d.useProjectName
       THEN /\ lookups' = <<[svc |-> "getProject", contextId |-> NoId,
                             name |-> d.projectName, result |-> Pending]>>
            /\ createPc' = "awaitProject"
            /\ contextId' = NoId
            /\ session' = NoSession
       ELSE /\ contextId' = d.projectId
            /\ ResolveIModel(d.projectId, d, <<>>)
    /\ UNCHANGED notCreateVars

SetResult(log, r) == [log EXCEPT ![Len(log)].result = r]

\* client.getProject settles; contextId = project.wsgId, then on to the iModel.
ProjectSettles(r) ==
    /\ createPc = "awaitProject"
    /\ IF r.kind = "rejected"
       THEN /\ createPc' = "failed"
            /\ createError' = r.message
            /\ lookups' = SetResult(lookups, r)
            /\ UNCHANGED <<contextId, session>>
       ELSE /\ contextId' = r.wsgId
            /\ ResolveIModel(r.wsgId, iModelData, SetResult(lookups, r))
            /\ UNCHANGED createError
    /\ UNCHANGED <<iModelData, notCreateVars>>

\* imodelClient.iModels.get settles.
IModelsSettles(r) ==
    /\ createPc = "awaitIModels"
    /\ lookups' = SetResult(lookups, r)
    /\ IF r.kind = "rejected"
       THEN /\ createPc' = "failed"
            /\ createError' = r.message
            /\ UNCHANGED session
       ELSE IF IModelsMissing(r)
       THEN /\ createPc' = "failed"
            /\ createError' = NotExistMessage(iModelData.name, contextId)
            /\ UNCHANGED session
       ELSE IF Len(r.list) = 0
       THEN \* imodels[0] is undefined: reading .wsgId throws a TypeError
            /\ createPc' = "failed"
            /\ createError' = WsgIdTypeError
            /\ UNCHANGED session
       ELSE /\ createPc' = "done"
            /\ session' = NewIModelSession(contextId, FirstIModelId(r))
            /\ UNCHANGED createError
    /\ UNCHANGED <<iModelData, contextId, notCreateVars>>

vars == <<sessionVars, connVars, fieldVars, editorVars>>

CreateInit ==
    /\ createPc = "idle"
    /\ iModelData = NoData
    /\ contextId = NoId
    /\ lookups = <<>>
    /\ session = NoSession
    /\ createError = ""

ConnIdle ==
    /\ iModel = [kind |-> "undefined", id |-> 0]
    /\ calls = <<>>
    /\ remoteOpens = <<>>

\* StatusBarFieldId values: null (no widget open), this field's class name, and
\* the id of some other status field.
NullWidget == "null"
ClassName == "MessageCenterField"
OtherWidget == "ToolAssistanceField"

NoEvent == [op |-> "none", wasOpen |-> FALSE, indicator |-> FALSE, target |-> "none",
            requested |-> "none"]

\* No MessageCenterField exists and MessageManager holds no message.
FieldIdle ==
    /\ messages = <<>>
    /\ listeners = {}
    /\ phase = "absent"
    /\ activeTab = "AllMessages"
    /\ target = "null"
    /\ messageCount = 0
    /\ openWidget = NullWidget
    /\ onOpenWidget = TRUE
    /\ rows = <<>>
    /\ clicks = 0
    /\ lastEvent = NoEvent

NoValue == [value |-> [int |-> 0, frac |-> 0], displayValue |-> <<>>]
NoKey == [key |-> "none", input |-> <<>>, commits |-> 0]

\* No editor is rendered.
EditorIdle ==
    /\ propertyRecord = [value |-> [int |-> 0, frac |-> 0], hasDisplayValue |-> FALSE, displayValue |-> <<>>,
                         isReadonly |-> FALSE]
    /\ inputValue = <<>>
    /\ commits = 0
    /\ lastCommit = NoValue
    /\ lastKey = NoKey

InitCreate == CreateInit /\ ConnIdle /\ FieldIdle /\ EditorIdle

NextCreate ==
    \/ \E d \in IModelDataSet : CreateBegin(d)
    \/ \E r \in GetProjectResults : ProjectSettles(r)
    \/ \E r \in IModelsGetResults : IModelsSettles(r)

SpecCreate == InitCreate /\ [][NextCreate]_vars

\* ------------------------------------------------------ claims on create

\* A by-name lookup that yielded no result.
NoResult(l) ==
    \/ l.svc = "getProject" /\ l.result.kind = "rejected" /\ l.result.message = ProjectNotFoundMsg
    \/ l.svc = "iModels.get" /\ l.result.kind = "undefined"
    \/ l.svc = "iModels.get" /\ l.result.kind = "list" /\ l.result.list = <<>>

\* The message that names what was looked up and not found.
DescriptiveMessage(l) ==
    IF l.svc = "getProject" THEN ProjectNotFoundMsg ELSE NotExistMessage(l.name, l.contextId)

\* C1: whenever a by-name lookup made by create (the project lookup, or the
\* iModel lookup returning undefined or an empty list) yields no result, create
\* fails with a descriptive error and produces no IModelSession.
C1_NoResultFails ==
    \A i \in 1..Len(lookups) :
        NoResult(lookups[i]) =>
            /\ createPc = "failed"
            /\ session = NoSession
            /\ createError = DescriptiveMessage(lookups[i])
            /\ lookups[i].svc = "iModels.get" =>
                  /\ lookups[i].name = iModelData.name
                  /\ lookups[i].contextId = contextId

C1_Witness ==
    /\ createPc = "failed"
    /\ Len(lookups) = 2
    /\ lookups[2].result.kind = "list"
    /\ lookups[2].result.list = <<>>
    /\ createError = NotExistMessage("modelX", "ctx2")

\* C9: a session returned by create holds the looked-up project's id when
\* useProjectName is set (else the given projectId, with no project lookup), and
\* the id of the first iModel the by-name query inside that context id returned
\* when useName is set (else the given id, with no iModel lookup); the project
\* lookup precedes the iModel lookup.
C9_IdsResolvedInOrder ==
    createPc = "done" =>
        LET d == iModelData
            nP == IF d.useProjectName THEN 1 ELSE 0
            nI == IF d.useName THEN 1 ELSE 0
        IN  /\ Len(lookups) = nP + nI
            /\ IF d.useProjectName
               THEN /\ lookups[1].svc = "getProject"
                    /\ lookups[1].name = d.projectName
                    /\ lookups[1].result.kind = "project"
                    /\ session.contextId = lookups[1].result.wsgId
               ELSE session.contextId = d.projectId
            /\ IF d.useName
               THEN /\ lookups[nP + 1].svc = "iModels.get"
                    /\ lookups[nP + 1].contextId = session.contextId
                    /\ lookups[nP + 1].name = d.name
                    /\ lookups[nP + 1].result.kind = "list"
                    /\ Len(lookups[nP + 1].result.list) >= 1
                    /\ session.iModelId = lookups[nP + 1].result.list[1]
               ELSE session.iModelId = d.id

C9_Witness ==
    /\ createPc = "done"
    /\ iModelData.useProjectName /\ iModelData.useName
    /\ session.contextId # iModelData.projectId
    /\ session.iModelId # iModelData.id
    /\ Len(lookups[2].result.list) = 2
    /\ lookups[2].result.list[1] # lookups[2].result.list[2]

\* ====================================== IModelSession.getConnection / open

Undefined == [kind |-> "undefined", id |-> 0]
Null == [kind |-> "null", id |-> 0]
\* The connection object the k-th remote open produces (a new object each time).
Conn(k) == [kind |-> "conn", id |-> k]

PendingOutcome == [kind |-> "pending", value |-> Undefined, message |-> ""]

\* What the k-th RemoteBriefcaseConnection.open can settle with.
OpenOutcomes(k) ==
    {[kind |-> "resolved", value |-> v, message |-> ""] : v \in {Conn(k), Null, Undefined}}
    \cup {[kind |-> "rejected", value |-> Undefined, message |-> m] : m \in RemoteErrors}

ExistsUnchecked(v) == TRUE

\* expect(this._iModel).to.exist : neither null nor undefined
Exists(v) == v.kind = "conn"

\* The message of the AssertionError the failed expectation throws.
ExistAssertionMessage(v) == "expected " \o v.kind \o " to exist"

\* `Failed to open test iModel. Error: ${e.message}`
OpenFailedMessage(m) == "Failed to open test iModel. Error: " \o m

\* The connections opened successfully so far.
Opened == {k \in 1..Len(remoteOpens) :
             remoteOpens[k].outcome.kind = "resolved" /\ Exists(remoteOpens[k].outcome.value)}

\* open(): runs to `await RemoteBriefcaseConnection.open(contextId, iModelId)`.
OpenBegin(via) ==
    /\ remoteOpens' = Append(remoteOpens,
           [contextId |-> session.contextId, iModelId |-> session.iModelId,
            outcome |-> PendingOutcome])
    /\ calls' = Append(calls,
           [via |-> via, state |-> "pending", value |-> Undefined, message |-> "",
            open |-> Len(remoteOpens) + 1, cached |-> iModel, completedBefore |-> Opened])
    /\ UNCHANGED iModel

\* undefined === this._iModel
NotCached(v) == v = Undefined

\* getConnection(): return undefined === this._iModel ? this.open() : this._iModel
GetConnection ==
    /\ Len(calls) < MaxCalls
    /\ IF NotCached(iModel)
       THEN OpenBegin("getConnection")
       ELSE /\ calls' = Append(calls,
                   [via |-> "getConnection", state |-> "resolved", value |-> iModel,
                    message |-> "", open |-> 0, cached |-> iModel, completedBefore |-> Opened])
            /\ UNCHANGED <<iModel, remoteOpens>>
    /\ UNCHANGED notConnVars

\* open() called directly by a client of the session.
Open ==
    /\ Len(calls) < MaxCalls
    /\ OpenBegin("open")
    /\ UNCHANGED notConnVars

\* The invocation that is waiting for remote open k.
CallOf(k) == CHOOSE c \in 1..Len(calls) : calls[c].open = k

\* The k-th remote open settles and open() runs on from its await: the
\* assignment to _iModel, the existence check, the catch clause, the return.
OpenSettles(k, o) ==
    /\ remoteOpens[k].outcome.kind = "pending"
    /\ remoteOpens' = [remoteOpens EXCEPT ![k].outcome = o]
    /\ IF o.kind = "rejected"
       THEN /\ calls' = [calls EXCEPT ![CallOf(k)].state = "rejected",
                                      ![CallOf(k)].message = OpenFailedMessage(o.message)]
            /\ UNCHANGED iModel
       ELSE /\ iModel' = o.value
            /\ IF Exists(o.value)
               THEN calls' = [calls EXCEPT ![CallOf(k)].state = "resolved",
                                           ![CallOf(k)].value = o.value]
               ELSE calls' = [calls EXCEPT ![CallOf(k)].state = "rejected",
                                           ![CallOf(k)].message =
                                               OpenFailedMessage(ExistAssertionMessage(o.value))]
    /\ UNCHANGED notConnVars

\* A session that create returned (both ids given, no lookup), not yet used.
InitConn ==
    /\ \E d \in IModelDataSet :
          /\ ~d.useProjectName /\ ~d.useName
          /\ iModelData = d
          /\ contextId = d.projectId
          /\ session = NewIModelSession(d.projectId, d.id)
    /\ createPc = "done"
    /\ lookups = <<>>
    /\ createError = ""
    /\ ConnIdle
    /\ FieldIdle
    /\ EditorIdle

NextConn ==
    \/ GetConnection
    \/ Open
    \/ \E k \in 1..Len(remoteOpens) : \E o \in OpenOutcomes(k) : OpenSettles(k, o)

SpecConn == InitConn /\ [][NextConn]_vars

\* ------------------------------------------- claims on getConnection / open

\* The remote attempt k failed: it rejected, or what it resolved with does not exist.
AttemptFailed(k) ==
    \/ remoteOpens[k].outcome.kind = "rejected"
    \/ remoteOpens[k].outcome.kind = "resolved" /\ remoteOpens[k].outcome.value.kind # "conn"

\* The message of the failure underlying failed attempt k.
UnderlyingMessage(k) ==
    IF remoteOpens[k].outcome.kind = "rejected"
    THEN remoteOpens[k].outcome.message
    ELSE "expected " \o remoteOpens[k].outcome.value.kind \o " to exist"

\* C2: whenever the remote connection attempt of an open fails (the remote open
\* rejects, or the existence check on its result fails), that open rejects with
\* the diagnostic prefix followed by the underlying failure's message, and does
\* not resolve to a connection.
C2_FailedOpenRejectsWrapped ==
    \A c \in 1..Len(calls) :
        (calls[c].open # 0 /\ AttemptFailed(calls[c].open)) =>
            /\ calls[c].state = "rejected"
            /\ calls[c].message =
                  "Failed to open test iModel. Error: " \o UnderlyingMessage(calls[c].open)

C2_Witness ==
    \E c \in 1..Len(calls) :
        /\ calls[c].via = "open"
        /\ calls[c].state = "rejected"
        /\ remoteOpens[calls[c].open].outcome.kind = "resolved"
        /\ remoteOpens[calls[c].open].outcome.value = Null

\* Only getConnection has been called on the session.
OnlyGetConnection == \A c \in 1..Len(calls) : calls[c].via = "getConnection"

\* C3: getConnection on a session with no cached connection performs a remote
\* open with the session's contextId and iModelId; and every getConnection call
\* made after an open completed successfully resolves to that open's connection
\* and performs no further remote open.
C3_LazyThenCached ==
    OnlyGetConnection =>
        \A c \in 1..Len(calls) :
            /\ calls[c].cached = Undefined =>
                  /\ calls[c].open # 0
                  /\ remoteOpens[calls[c].open].contextId = session.contextId
                  /\ remoteOpens[calls[c].open].iModelId = session.iModelId
            /\ \A k \in calls[c].completedBefore :
                  /\ calls[c].open = 0
                  /\ calls[c].state = "resolved"
                  /\ calls[c].value = Conn(k)

\* C10: for any interleaving of getConnection calls on one session, at most one
\* remote open is performed and all calls resolve to the same connection.
C10_AtMostOneOpen ==
    OnlyGetConnection =>
        /\ Len(remoteOpens) <= 1
        /\ \A c, e \in 1..Len(calls) :
              (calls[c].state = "resolved" /\ calls[e].state = "resolved") =>
                  calls[c].value = calls[e].value

\* Remote open k settles in this step, and fails.
FailsNow(k) ==
    /\ remoteOpens[k].outcome.kind = "pending"
    /\ remoteOpens'[k].outcome.kind # "pending"
    /\ \/ remoteOpens'[k].outcome.kind = "rejected"
       \/ remoteOpens'[k].outcome.value.kind # "conn"

\* getConnection is called in this step.
GetConnectionCalled ==
    /\ Len(calls') = Len(calls) + 1
    /\ calls'[Len(calls')].via = "getConnection"

\* C11: an open that fails, in whichever way, leaves the cached connection as
\* it was before; so getConnection never resolves to a missing (null or
\* undefined) connection, and while no open has succeeded and none is pending
\* it performs the remote open again.
C11_FailedOpenKeepsCache ==
    [][/\ (\E k \in 1..Len(remoteOpens) : FailsNow(k)) => iModel' = iModel
       /\ \A c \in 1..Len(calls') :
             (calls'[c].via = "getConnection" /\ calls'[c].state = "resolved") =>
                 calls'[c].value.kind = "conn"
       /\ (/\ GetConnectionCalled
           /\ \A k \in 1..Len(remoteOpens) : remoteOpens[k].outcome.kind # "pending"
           /\ Opened = {}) => Len(remoteOpens') = Len(remoteOpens) + 1]_vars

\* ===================================== MessageManager / MessageCenterField

MaxMessages == 3    \* messages MessageManager is given
MaxClicks == 3      \* indicator clicks in a row

\* OutputMessagePriority values a message can carry.
Priorities == {"Error", "Fatal", "Info"}

\* The listener the component registers: this._handleMessageAddedEvent
FieldListener == "MessageCenterField._handleMessageAddedEvent"

IsProblemStatusErrorOnly(priority) == priority = "Error"

\* isProblemStatus(priority)
IsProblemStatus(priority) == priority = "Error" \/ priority = "Fatal"

\* messages.slice(0).reverse()
Reverse(s) == [i \in 1..Len(s) |-> s[Len(s) + 1 - i]]

\* The forEach loop of getMessages from position index on: a row is pushed for a
\* message when the tab is AllMessages or the message is a problem.
RECURSIVE PushRows(_, _, _, _)
PushRows(reversed, index, tab, tabRows) ==
    IF index > Len(reversed) THEN tabRows
    ELSE IF tab = "AllMessages" \/ IsProblemStatus(reversed[index].priority)
         THEN PushRows(reversed, index + 1, tab,
                       Append(tabRows, [key |-> index - 1, details |-> reversed[index]]))
         ELSE PushRows(reversed, index + 1, tab, tabRows)

\* getMessages(): the rows render() shows in the dialog.
GetMessages(msgs, tab) == PushRows(Reverse(msgs), 1, tab, <<>>)

\* MessageManager.addMessage: the message is appended and onMessageAddedEvent is
\* raised; a registered _handleMessageAddedEvent sets messageCount and the
\* component renders again.
AddMessage(p) ==
    /\ Len(messages) < MaxMessages
    /\ messages' = Append(messages, [id |-> Len(messages) + 1, priority |-> p])
    /\ IF FieldListener \in listeners
       THEN /\ messageCount' = Len(messages')
            /\ rows' = GetMessages(messages', activeTab)
       ELSE UNCHANGED <<messageCount, rows>>
    /\ UNCHANGED <<listeners, phase, activeTab, target, openWidget, onOpenWidget,
                   clicks, lastEvent>>
    /\ UNCHANGED notFieldVars

\* new MessageCenterField(props): the state initialiser reads the message count.
Construct(given) ==
    /\ phase = "absent"
    /\ phase' = "constructed"
    /\ activeTab' = "AllMessages"
    /\ target' = "null"
    /\ messageCount' = Len(messages)
    /\ onOpenWidget' = given
    /\ rows' = <<>>
    /\ clicks' = 0
    /\ lastEvent' = NoEvent
    /\ UNCHANGED <<messages, listeners, openWidget>>
    /\ UNCHANGED notFieldVars

\* The first render() followed by componentDidMount().
ComponentDidMount ==
    /\ phase = "constructed"
    /\ phase' = "mounted"
    /\ rows' = GetMessages(messages, activeTab)
    /\ listeners' = listeners \cup {FieldListener}
    /\ UNCHANGED <<messages, activeTab, target, messageCount, openWidget, onOpenWidget,
                   clicks, lastEvent>>
    /\ UNCHANGED notFieldVars

KeepListener(ls) == ls

\* onMessageAddedEvent.removeListener(this._handleMessageAddedEvent)
RemoveListener(ls) == ls \ {FieldListener}

\* componentWillUnmount()
ComponentWillUnmount ==
    /\ phase = "mounted"
    /\ phase' = "unmounted"
    /\ listeners' = RemoveListener(listeners)
    /\ UNCHANGED <<messages, activeTab, target, messageCount, openWidget, onOpenWidget,
                   rows, clicks, lastEvent>>
    /\ UNCHANGED notFieldVars

\* _changeActiveTab(tab), then render()
ChangeActiveTab(tab) ==
    /\ phase = "mounted"
    /\ activeTab' = tab
    /\ rows' = GetMessages(messages, tab)
    /\ UNCHANGED <<messages, listeners, phase, target, messageCount, openWidget,
                   onOpenWidget, clicks, lastEvent>>
    /\ UNCHANGED notFieldVars

\* _handleTargetRef(t), then render()
HandleTargetRef(t) ==
    /\ phase = "mounted"
    /\ target' = t
    /\ rows' = GetMessages(messages, activeTab)
    /\ UNCHANGED <<messages, listeners, phase, activeTab, messageCount, openWidget,
                   onOpenWidget, clicks, lastEvent>>
    /\ UNCHANGED notFieldVars

\* setOpenWidget(w): the parent, when it gave onOpenWidget, applies the request
\* and the component renders with the new props.
SetOpenWidget(w) ==
    /\ openWidget' = IF onOpenWidget THEN w ELSE openWidget
    /\ rows' = GetMessages(messages, activeTab)

IndicatorRequestAlwaysOpen(isOpen) == ClassName

\* What _handleMessageIndicatorClick asks for.
IndicatorRequest(isOpen) == IF isOpen THEN NullWidget ELSE ClassName

\* _handleMessageIndicatorClick()
HandleMessageIndicatorClick ==
    /\ phase = "mounted"
    /\ clicks < MaxClicks
    /\ LET isOpen == openWidget = ClassName
       IN  /\ SetOpenWidget(IndicatorRequest(isOpen))
           /\ lastEvent' = [op |-> "indicatorClick", wasOpen |-> isOpen, indicator |-> TRUE,
                            target |-> "insideIndicator",
                            requested |-> IndicatorRequest(isOpen)]
    /\ clicks' = clicks + 1
    /\ UNCHANGED <<messages, listeners, phase, activeTab, target, messageCount, onOpenWidget>>
    /\ UNCHANGED notFieldVars

\* The early return of _handleOutsideClick: no indicator element, a target
\* that is no Node, or a target inside the indicator.
OutsideClickIgnored(indicator, t) ==
    \/ ~indicator
    \/ t = "notANode"
    \/ t = "insideIndicator"

\* _handleOutsideClick(e), with this._indicator.current set or not
HandleOutsideClick(indicator, t) ==
    /\ phase = "mounted"
    /\ IF OutsideClickIgnored(indicator, t)
       THEN /\ lastEvent' = [op |-> "outsideClick", wasOpen |-> openWidget = ClassName,
                             indicator |-> indicator, target |-> t, requested |-> "none"]
            /\ UNCHANGED <<openWidget, rows, clicks>>
       ELSE /\ lastEvent' = [op |-> "outsideClick", wasOpen |-> openWidget = ClassName,
                             indicator |-> indicator, target |-> t, requested |-> NullWidget]
            /\ SetOpenWidget(NullWidget)
            /\ clicks' = IF onOpenWidget THEN 0 ELSE clicks
    /\ UNCHANGED <<messages, listeners, phase, activeTab, target, messageCount, onOpenWidget>>
    /\ UNCHANGED notFieldVars

\* _handleClose(), the popup's onClose
HandleClose ==
    /\ phase = "mounted"
    /\ lastEvent' = [op |-> "close", wasOpen |-> openWidget = ClassName, indicator |-> TRUE,
                     target |-> "none", requested |-> NullWidget]
    /\ SetOpenWidget(NullWidget)
    /\ clicks' = IF onOpenWidget THEN 0 ELSE clicks
    /\ UNCHANGED <<messages, listeners, phase, activeTab, target, messageCount, onOpenWidget>>
    /\ UNCHANGED notFieldVars

\* The parent opens another status field's widget (props.openWidget changes).
OtherWidgetOpens ==
    /\ phase = "mounted"
    /\ openWidget # OtherWidget
    /\ openWidget' = OtherWidget
    /\ rows' = GetMessages(messages, activeTab)
    /\ clicks' = 0
    /\ UNCHANGED <<messages, listeners, phase, activeTab, target, messageCount,
                   onOpenWidget, lastEvent>>
    /\ UNCHANGED notFieldVars

InitField == CreateInit /\ ConnIdle /\ FieldIdle /\ EditorIdle

NextField ==
    \/ \E p \in Priorities : AddMessage(p)
    \/ \E given \in BOOLEAN : Construct(given)
    \/ ComponentDidMount
    \/ ComponentWillUnmount
    \/ \E tab \in {"AllMessages", "Problems"} : ChangeActiveTab(tab)
    \/ \E t \in {"null", "div"} : HandleTargetRef(t)
    \/ HandleMessageIndicatorClick
    \/ \E indicator \in BOOLEAN, t \in {"insideIndicator", "elsewhere", "notANode"} :
          HandleOutsideClick(indicator, t)
    \/ HandleClose
    \/ OtherWidgetOpens

SpecField == InitField /\ [][NextField]_vars

\* ---------------------------------------------- claims on MessageCenterField

\* The messages a tab is meant to show, in the manager's order.
Qualifies(m, tab) == tab = "AllMessages" \/ m.priority \in {"Error", "Fatal"}
Qualifying(msgs, tab) == SelectSeq(msgs, LAMBDA m : Qualifies(m, tab))

\* C4: the rendered rows are, newest first, all of MessageManager's messages on
\* the AllMessages tab and exactly those of priority Error or Fatal on the
\* Problems tab.
C4_RowsAreFilteredNewestFirst ==
    phase = "mounted" =>
        LET q == Qualifying(messages, activeTab)
        IN  /\ Len(rows) = Len(q)
            /\ \A i \in 1..Len(q) : rows[i].details = q[Len(q) + 1 - i]

C4_Witness ==
    /\ phase = "mounted"
    /\ activeTab = "Problems"
    /\ Len(messages) = 3
    /\ messages[1].priority = "Fatal"
    /\ messages[2].priority = "Info"
    /\ messages[3].priority = "Error"
    /\ Len(rows) = 2

\* C5: an indicator click requests null when this field's widget is the open one
\* and this field's id otherwise, so with a parent applying each request the
\* panel is open after n clicks from closed exactly when n is odd; an outside
\* click whose target lies inside the indicator requests nothing.
C5_ClickToggles ==
    /\ lastEvent.op = "indicatorClick" =>
          lastEvent.requested = (IF lastEvent.wasOpen THEN NullWidget ELSE ClassName)
    /\ (phase = "mounted" /\ onOpenWidget) => ((openWidget = ClassName) <=> (clicks % 2 = 1))
    /\ (lastEvent.op = "outsideClick" /\ lastEvent.target = "insideIndicator") =>
          lastEvent.requested = "none"

C5_Witness ==
    /\ phase = "mounted"
    /\ onOpenWidget
    /\ clicks = 3
    /\ openWidget = ClassName
    /\ lastEvent.op = "indicatorClick"

\* C6: the component's listener is registered exactly from mount until unmount;
\* a message-added event raised while it is mounted sets messageCount to the
\* manager's message count; one raised after unmount changes none of its state.
C6_SubscribedWhileMounted ==
    /\ [](FieldListener \in listeners <=> phase = "mounted")
    /\ [][(messages' # messages /\ phase = "mounted") => messageCount' = Len(messages')]_vars
    /\ [][(messages' # messages /\ phase = "unmounted") =>
              UNCHANGED <<activeTab, target, messageCount>>]_vars

C6_Witness ==
    /\ phase = "unmounted"
    /\ Len(messages) = 3
    /\ messageCount = 2

\* ======================= CustomNumberEditor inside an EditorContainer
\* A number is held as its integer part and its fraction in millionths (3.345689
\* is int 3, frac 345689); texts are sequences of one-character strings.

MaxTextLen == 3     \* longest text typed into the input
MaxCommits == 2     \* Enter presses

\* const numVal = 3.345689
numVal == [int |-> 3, frac |-> 345689]
\* const displayVal = "3.35"
displayVal == <<"3", ".", "3", "5">>

Digits == {"0", "1", "2", "3", "4", "5", "6", "7", "8", "9"}
DigitVal(c) ==
    CASE c = "0" -> 0 [] c = "1" -> 1 [] c = "2" -> 2 [] c = "3" -> 3 [] c = "4" -> 4
      [] c = "5" -> 5 [] c = "6" -> 6 [] c = "7" -> 7 [] c = "8" -> 8 [] c = "9" -> 9
DigitChar(n) == CHOOSE c \in Digits : DigitVal(c) = n

\* The characters typed in this model.
Chars == {"7", ".", "a"}

RECURSIVE TextsUpTo(_)
TextsUpTo(n) ==
    IF n = 0 THEN {<<>>}
    ELSE LET shorter == TextsUpTo(n - 1)
         IN  shorter \cup {Append(t, c) : t \in {s \in shorter : Len(s) = n - 1}, c \in Chars}

\* Number.parseFloat, scanning: the integer digits from position i on.
RECURSIVE ScanInt(_, _, _, _)
ScanInt(t, i, acc, seen) ==
    IF i <= Len(t) /\ t[i] \in Digits
    THEN ScanInt(t, i + 1, acc * 10 + DigitVal(t[i]), TRUE)
    ELSE [next |-> i, int |-> acc, seen |-> seen]

\* The fraction digits from position i on; unit is the weight of the next digit.
RECURSIVE ScanFrac(_, _, _, _, _)
ScanFrac(t, i, acc, unit, seen) ==
    IF i <= Len(t) /\ t[i] \in Digits
    THEN ScanFrac(t, i + 1, acc + DigitVal(t[i]) * unit, unit \div 10, TRUE)
    ELSE [frac |-> acc, seen |-> seen]

\* parseFunction(stringValue): Number.parseFloat of the text, a parse error when
\* that is NaN.
ParseFunction(t) ==
    LET ip == ScanInt(t, 1, 0, FALSE)
        fp == IF ip.next <= Len(t) /\ t[ip.next] = "."
              THEN ScanFrac(t, ip.next + 1, 0, 100000, FALSE)
              ELSE [frac |-> 0, seen |-> FALSE]
    IN  IF ip.seen \/ fp.seen
        THEN [parseError |-> FALSE, value |-> [int |-> ip.int, frac |-> fp.frac]]
        ELSE [parseError |-> TRUE, value |-> [int |-> 0, frac |-> 0]]

RECURSIVE IntChars(_)
IntChars(n) ==
    IF n < 10 THEN <<DigitChar(n)>> ELSE Append(IntChars(n \div 10), DigitChar(n % 10))

\* formatFunction(numberValue): numberValue.toFixed(2)
FormatFunction(v) ==
    LET h == (v.frac + 5000) \div 10000
        int == IF h = 100 THEN v.int + 1 ELSE v.int
    IN  IntChars(int) \o <<".", DigitChar((h % 100) \div 10), DigitChar(h % 10)>>

\* The display value the input starts with and Escape returns to: the record's
\* display value, or the formatted value when the record has none.
InitialDisplayValue(record) ==
    IF record.hasDisplayValue /\ Len(record.displayValue) > 0
    THEN record.displayValue
    ELSE FormatFunction(record.value)

\* The property records the editor is rendered with.
PropertyRecords ==
    {[value |-> numVal, hasDisplayValue |-> h,
      displayValue |-> IF h THEN displayVal ELSE <<>>, isReadonly |-> r] :
        h \in BOOLEAN, r \in BOOLEAN}

InputAfterChangeIgnoringReadonly(record, current, text) == text

\* The input's text after a change event: a read-only, disabled input keeps it.
InputAfterChange(record, current, text) == IF record.isReadonly THEN current ELSE text

\* fireEvent.change(inputField, { target: { value: text } })
Change(text) ==
    /\ inputValue' = InputAfterChange(propertyRecord, inputValue, text)
    /\ lastKey' = [key |-> "change", input |-> text, commits |-> commits]
    /\ UNCHANGED <<propertyRecord, commits, lastCommit>>
    /\ UNCHANGED notEditorVars

OriginalValue(record) == [value |-> record.value, displayValue |-> InitialDisplayValue(record)]

\* getPropertyValue(): what a commit reports.
PropertyValue(record, text) ==
    IF record.isReadonly \/ ParseFunction(text).parseError
    THEN OriginalValue(record)
    ELSE [value |-> ParseFunction(text).value,
          displayValue |-> FormatFunction(ParseFunction(text).value)]

\* Enter on the container: onCommit is invoked with the property value.
KeyEnter ==
    /\ commits < MaxCommits
    /\ commits' = commits + 1
    /\ lastCommit' = PropertyValue(propertyRecord, inputValue)
    /\ lastKey' = [key |-> "Enter", input |-> inputValue, commits |-> commits]
    /\ UNCHANGED <<propertyRecord, inputValue>>
    /\ UNCHANGED notEditorVars

InputAfterEscapeKept(record, current) == current

\* The input's text after Escape.
InputAfterEscape(record, current) == InitialDisplayValue(record)

\* Escape in the input: the text goes back to the initial display value.
KeyEscape ==
    /\ inputValue' = InputAfterEscape(propertyRecord, inputValue)
    /\ lastKey' = [key |-> "Escape", input |-> inputValue, commits |-> commits]
    /\ UNCHANGED <<propertyRecord, commits, lastCommit>>
    /\ UNCHANGED notEditorVars

\* The container is rendered again with another property record.
Rerender(record) ==
    /\ propertyRecord' = record
    /\ inputValue' = InitialDisplayValue(record)
    /\ lastKey' = [key |-> "rerender", input |-> inputValue, commits |-> commits]
    /\ UNCHANGED <<commits, lastCommit>>
    /\ UNCHANGED notEditorVars

\* The editor as first rendered with a property record.
InitEditor ==
    /\ CreateInit /\ ConnIdle /\ FieldIdle
    /\ propertyRecord \in PropertyRecords
    /\ inputValue = InitialDisplayValue(propertyRecord)
    /\ commits = 0
    /\ lastCommit = NoValue
    /\ lastKey = NoKey

NextEditor ==
    \/ \E text \in TextsUpTo(MaxTextLen) : Change(text)
    \/ KeyEnter
    \/ KeyEscape
    \/ \E record \in PropertyRecords : Rerender(record)

SpecEditor == InitEditor /\ [][NextEditor]_vars

\* ---------------------------------------------- claims on CustomNumberEditor

RECURSIVE Pow10(_)
Pow10(k) == IF k = 0 THEN 1 ELSE 10 * Pow10(k - 1)

RECURSIVE SumOver(_, _, _, _)
\* The sum of DigitVal(t[i]) * 10^(top - i) for i in lo..hi.
SumOver(t, lo, hi, top) ==
    IF lo > hi THEN 0 ELSE DigitVal(t[lo]) * Pow10(top - lo) + SumOver(t, lo + 1, hi, top)

\* The length of the run of digits of t that starts at position from.
DigitRun(t, from) ==
    CHOOSE n \in 0..Len(t) :
        /\ from + n - 1 <= Len(t)
        /\ \A i \in from..(from + n - 1) : t[i] \in Digits
        /\ (from + n <= Len(t)) => t[from + n] \notin Digits

\* The decimal numeral t starts with: its integer digits, and the digits after
\* a point that follows them.
IntLen(t) == DigitRun(t, 1)
FracLen(t) ==
    IF IntLen(t) < Len(t) /\ t[IntLen(t) + 1] = "." THEN DigitRun(t, IntLen(t) + 2) ELSE 0
StartsWithNumber(t) == IntLen(t) + FracLen(t) > 0

\* The number that numeral denotes (fraction digits beyond the sixth dropped).
NumberOf(t) ==
    LET n == IntLen(t)
        m == IF FracLen(t) > 6 THEN 6 ELSE FracLen(t)
    IN  [int |-> SumOver(t, 1, n, n), frac |-> SumOver(t, n + 2, n + 1 + m, n + 7)]

\* d is the numeral with exactly two decimals nearest to the number v.
TwoDecimalsOf(d, v) ==
    /\ Len(d) >= 4
    /\ IntLen(d) = Len(d) - 3
    /\ FracLen(d) = 2
    /\ (IntLen(d) > 1 => d[1] # "0")
    /\ LET n == NumberOf(d)
       IN  \/ n.int = v.int /\ n.frac - v.frac \in -4999..5000
           \/ n.int = v.int + 1 /\ 1000000 + n.frac - v.frac \in -4999..5000

\* text is the display value the editor started from for this record.
IsOriginalDisplay(text, record) ==
    IF record.hasDisplayValue THEN text = record.displayValue
    ELSE TwoDecimalsOf(text, record.value)

\* C7: after the input was changed, Escape puts the property's original display
\* value back in the input and invokes no onCommit; Enter invokes onCommit once,
\* with the number the text parses to and that number's two-decimal display.
C7_EscapeRestoresEnterCommits ==
    /\ lastKey.key = "Escape" =>
          /\ IsOriginalDisplay(inputValue, propertyRecord)
          /\ commits = lastKey.commits
    /\ (lastKey.key = "Enter" /\ ~propertyRecord.isReadonly /\ StartsWithNumber(lastKey.input)) =>
          /\ commits = lastKey.commits + 1
          /\ lastCommit.value = NumberOf(lastKey.input)
          /\ TwoDecimalsOf(lastCommit.displayValue, lastCommit.value)

C7_Witness ==
    /\ ~propertyRecord.isReadonly
    /\ lastKey.key = "Escape"
    /\ lastKey.input = <<"a", "7">>
    /\ inputValue = displayVal
    /\ commits = 1
    /\ lastCommit.value = [int |-> 7, frac |-> 700000]
    /\ lastCommit.displayValue = <<"7", ".", "7", "0">>

\* C8: a read-only, disabled editor keeps showing the original display value
\* through change events, and its commit reports the original number and
\* display value; so does the commit of a text that does not parse as a number.
C8_ReadonlyAndBadTextKeepOriginal ==
    /\ propertyRecord.isReadonly => IsOriginalDisplay(inputValue, propertyRecord)
    /\ (lastKey.key = "Enter" /\ (propertyRecord.isReadonly \/ ~StartsWithNumber(lastKey.input))) =>
          /\ commits = lastKey.commits + 1
          /\ lastCommit.value = propertyRecord.value
          /\ IsOriginalDisplay(lastCommit.displayValue, propertyRecord)

C8_Witness ==
    /\ propertyRecord.isReadonly
    /\ propertyRecord.hasDisplayValue
    /\ lastKey.key = "Enter"
    /\ inputValue = displayVal
    /\ commits = 2
    /\ lastCommit = [value |-> numVal, displayValue |-> displayVal]

\* C12: whenever the component is mounted its messageCount is the number of
\* messages MessageManager holds, also when messages were added between its
\* construction and its mount; a change of the active tab or of the popup
\* target leaves messageCount as it is.
C12_CountMatchesManager ==
    /\ [](phase = "mounted" => messageCount = Len(messages))
    /\ [][(activeTab' # activeTab \/ target' # target) /\ phase = "mounted" =>
              messageCount' = messageCount]_vars
====
